---- MODULE Spec2Model ----
(***************************************************************************)
(* Model of the Sensu Go Slack handler (main.go).                          *)
(*                                                                         *)
(* A Go string is modelled as a sequence of one-character strings, so that *)
(* trimming, slicing and formatting are computed character by character.   *)
(* A Go function that can panic returns a record [panic, val].             *)
(*                                                                         *)
(* Two specifications share the variables:                                 *)
(*   Spec     the handler's life: options loaded, checkArgs, sendMessage   *)
(*   FmtSpec  the formatter functions applied to an event, as the unit     *)
(*            tests apply them                                             *)
(***************************************************************************)
EXTENDS Integers, Sequences, FiniteSets, TLC

VARIABLES pc, env, config, event, posts, checkErr, sendErr, tmplErr, attachment, call

vars == <<pc, env, config, event, posts, checkErr, sendErr, tmplErr, attachment, call>>

----------------------------------------------------------------------------
(* Bounds of the model *)

\* longest short check output that is enumerated exhaustively
MaxOutLen == 3

\* largest maxLength argument handed to eventSummary by TestEventSummary
MaxLength == 4

\* largest check status
MaxStatus == 3

\* long outputs have FallbackMaxLength-Slack .. FallbackMaxLength+Slack body characters
Slack == 1

----------------------------------------------------------------------------
(* Characters and literals *)

LF == "\n"

CR == "\r"

Alphabet == {"a", "b", LF, CR}

\* the truncation length formattedMessage passes to eventSummary
FallbackMaxLength == 100

Ellipsis == <<".", ".", ".">>

Resolved == <<"R", "E", "S", "O", "L", "V", "E", "D">>

Alert == <<"A", "L", "E", "R", "T">>

defaultChannel == <<"#", "g", "e", "n", "e", "r", "a", "l">>

defaultUsername == <<"s", "e", "n", "s", "u">>

defaultIconURL ==
    <<"h", "t", "t", "p", "s", ":", "/", "/", "w", "w", "w", ".", "s", "e",
      "n", "s", "u", ".", "i", "o", "/", "i", "m", "g", "/", "s", "e", "n",
      "s", "u", "-", "l", "o", "g", "o", ".", "p", "n", "g">>

\* the default description template; templates are evaluated outside main.go
\* and the model never looks inside one
defaultTemplate == "defaultTemplate"

Nil == "nil"

ErrWebhookRequired == "--webhook-url or SLACK_WEBHOOK_URL environment variable is required"

ErrUIRequired == "--ui-url or SENSU_UI_URL environment variable is required"

ErrSend == "Failed to send Slack message"

NoAttachment == [set |-> FALSE]

NoCall == [fn |-> "none"]

\* result of a Go function that returned v
Ret(v) == [panic |-> FALSE, val |-> v]

\* result of a Go function that panicked (slice bounds out of range)
Panicked == [panic |-> TRUE, val |-> <<>>]

----------------------------------------------------------------------------
(* Go library functions used by main.go *)

RECURSIVE TrimLeft(_, _)
TrimLeft(s, cutset) ==
    IF s = <<>> \/ Head(s) \notin cutset THEN s ELSE TrimLeft(Tail(s), cutset)

RECURSIVE TrimRight(_, _)
TrimRight(s, cutset) ==
    IF s = <<>> \/ s[Len(s)] \notin cutset THEN s
    ELSE TrimRight(SubSeq(s, 1, Len(s) - 1), cutset)

\* strings.Trim: all leading and trailing characters of cutset removed
Trim(s, cutset) == TrimRight(TrimLeft(s, cutset), cutset)

\* s[lo:hi] of a Go string: panics when hi is beyond the end
Slice(s, lo, hi) ==
    IF hi > Len(s) \/ lo > hi THEN Panicked ELSE Ret(SubSeq(s, lo + 1, hi))

\* strings.Replace(s, `\n`, "\n", -1)
RECURSIVE ReplaceEscapedNewlines(_)
ReplaceEscapedNewlines(s) ==
    IF s = <<>> THEN <<>>
    ELSE IF Len(s) >= 2 /\ s[1] = "\\" /\ s[2] = "n"
         THEN <<LF>> \o ReplaceEscapedNewlines(SubSeq(s, 3, Len(s)))
         ELSE <<Head(s)>> \o ReplaceEscapedNewlines(Tail(s))

----------------------------------------------------------------------------
(* The formatter functions *)

formattedEventAction_AlertOnlyWarning(e) ==
    IF e.Check.Status = 1 THEN Alert ELSE Resolved

formattedEventAction(e) ==
    IF e.Check.Status = 0 THEN Resolved ELSE Alert

chomp(s) == Trim(Trim(Trim(s, {LF}), {CR}), {CR, LF})

eventKey(e) == e.Entity.Name \o <<"/">> \o e.Check.Name

eventSummary_NoTruncation(e, maxLength) ==
    Ret(eventKey(e) \o <<":">> \o chomp(e.Check.Output))

eventSummary(e, maxLength) ==
    LET output == chomp(e.Check.Output)
        sliced == Slice(output, 0, maxLength)
    IN  IF Len(e.Check.Output) > maxLength
        THEN IF sliced.panic THEN Panicked
             ELSE Ret(eventKey(e) \o <<":">> \o sliced.val \o Ellipsis)
        ELSE Ret(eventKey(e) \o <<":">> \o output)

eventURL(e, cfg) ==
    cfg.sensuUIURL \o <<"/", "n", "/">> \o e.Entity.Namespace
        \o <<"/", "e", "v", "e", "n", "t", "s", "/">> \o e.Entity.Name
        \o <<"/">> \o e.Check.Name

formattedMessage(e) ==
    LET summary == eventSummary(e, FallbackMaxLength)
    IN  IF summary.panic THEN Panicked
        ELSE Ret(formattedEventAction(e) \o <<" ", "-", " ">> \o summary.val)

messageColor_NoCritical(e) ==
    CASE e.Check.Status = 0 -> "#36a64f"
      [] e.Check.Status = 1 -> "#ffcc00"
      [] OTHER -> "#6600cc"

messageColor(e) ==
    CASE e.Check.Status = 0 -> "#36a64f"
      [] e.Check.Status = 1 -> "#ffcc00"
      [] e.Check.Status = 2 -> "#ff0000"
      [] OTHER -> "#6600cc"

\* description is what templates.EvalTemplate returned (empty or partial
\* when it failed); the error is only printed
messageAttachment(e, cfg, description) ==
    LET fallback == formattedMessage(e)
    IN  IF fallback.panic THEN Panicked
        ELSE Ret([set |-> TRUE,
                  Text |-> ReplaceEscapedNewlines(description),
                  Fallback |-> fallback.val,
                  Color |-> messageColor(e),
                  MarkdownIn |-> <<"text">>,
                  Actions |-> <<[Text |-> "View in Sensu", Type |-> "button",
                                 URL |-> eventURL(e, cfg)]>>])

----------------------------------------------------------------------------
(* Configuration *)

\* a plugin option: the argument, else the environment variable, else the default
Option(arg, envvar, default) ==
    IF arg # <<>> THEN arg ELSE IF envvar # <<>> THEN envvar ELSE default

\* var config = HandlerConfig{...}: every option still at its zero value
ZeroConfig ==
    [sensuUIURL |-> <<>>, slackwebHookURL |-> <<>>, slackChannel |-> <<>>,
     slackUsername |-> <<>>, slackIconURL |-> <<>>,
     slackDescriptionTemplate |-> "", slackAlertCritical |-> FALSE]

slackConfigOptions(en) ==
    [sensuUIURL |-> Option(en.uiArg, en.uiEnv, <<>>),
     slackwebHookURL |-> Option(en.webhookArg, en.webhookEnv, <<>>),
     slackChannel |-> Option(en.channelArg, <<>>, defaultChannel),
     slackUsername |-> Option(en.usernameArg, <<>>, defaultUsername),
     slackIconURL |-> Option(en.iconArg, <<>>, defaultIconURL),
     slackDescriptionTemplate |-> defaultTemplate,
     slackAlertCritical |-> FALSE]

\* checkArgs, first half: the deprecated environment variables
deprecatedEnv(cfg, en) ==
    LET c1 == IF en.webhookDep # <<>>
              THEN [cfg EXCEPT !.slackwebHookURL = en.webhookDep] ELSE cfg
        c2 == IF en.channelDep # <<>> /\ c1.slackChannel = defaultChannel
              THEN [c1 EXCEPT !.slackChannel = en.channelDep] ELSE c1
        c3 == IF en.usernameDep # <<>> /\ c2.slackUsername = defaultUsername
              THEN [c2 EXCEPT !.slackUsername = en.usernameDep] ELSE c2
        c4 == IF en.iconDep # <<>> /\ c3.slackIconURL = defaultIconURL
              THEN [c3 EXCEPT !.slackIconURL = en.iconDep] ELSE c3
    IN  c4

requiredOptions_UINotChecked(cfg) ==
    IF Len(cfg.slackwebHookURL) = 0 THEN ErrWebhookRequired ELSE Nil

\* checkArgs, second half: the required options
requiredOptions(cfg) ==
    IF Len(cfg.slackwebHookURL) = 0 THEN ErrWebhookRequired
    ELSE IF Len(cfg.sensuUIURL) = 0 THEN ErrUIRequired
    ELSE Nil

----------------------------------------------------------------------------
(* Inputs *)

Rep(c, n) == [i \in 1..n |-> c]

ShortOutputs == UNION {[1..k -> Alphabet] : k \in 0..MaxOutLen}

Tails == {<<>>, <<LF>>, <<LF, LF>>, <<CR, LF>>}

LongOutputs ==
    {Rep("a", n) \o t : n \in (FallbackMaxLength - Slack)..(FallbackMaxLength + Slack),
                        t \in Tails}

Event(entity, check, status, output) ==
    [Entity |-> [Name |-> entity, Namespace |-> <<"d">>],
     Check |-> [Name |-> check, Status |-> status, Output |-> output]]

FmtEvents ==
    {Event(<<"e", "1">>, <<"c", "1">>, st, out) :
        st \in 0..MaxStatus, out \in ShortOutputs \cup LongOutputs}

HandlerOutputs ==
    {<<>>, <<LF, "a", LF>>} \cup
    {Rep("a", n) \o <<LF, LF>> : n \in (FallbackMaxLength - Slack)..(FallbackMaxLength + Slack)}

HandlerEvents ==
    {Event(<<"e", "1">>, <<"c", "1">>, st, out) :
        st \in 0..MaxStatus, out \in HandlerOutputs}

OptionalArgs ==
    {[channelArg |-> <<>>, usernameArg |-> <<>>, iconArg |-> <<>>],
     [channelArg |-> <<"#", "t">>, usernameArg |-> <<"b", "o", "t">>,
      iconArg |-> <<"i", "c">>]}

Envs ==
    {[webhookArg |-> wa, webhookEnv |-> we, webhookDep |-> wd,
      uiArg |-> ua, uiEnv |-> ue,
      channelArg |-> oa.channelArg, usernameArg |-> oa.usernameArg,
      iconArg |-> oa.iconArg,
      channelDep |-> cd, usernameDep |-> ud, iconDep |-> id] :
        wa \in {<<>>, <<"w", "a">>}, we \in {<<>>, <<"w", "e">>},
        wd \in {<<>>, <<"w", "d">>},
        ua \in {<<>>, <<"u", "a">>}, ue \in {<<>>, <<"u", "e">>},
        oa \in OptionalArgs,
        cd \in {<<>>, <<"#", "d">>}, ud \in {<<>>, <<"u", "d">>},
        id \in {<<>>, <<"i", "d">>}}

NoEnv ==
    [webhookArg |-> <<>>, webhookEnv |-> <<>>, webhookDep |-> <<>>,
     uiArg |-> <<>>, uiEnv |-> <<>>,
     channelArg |-> <<>>, usernameArg |-> <<>>, iconArg |-> <<>>,
     channelDep |-> <<>>, usernameDep |-> <<>>, iconDep |-> <<>>]

\* what templates.EvalTemplate can hand back: nothing, or text with an escaped newline
Descriptions == {<<>>, <<"o", "\\", "n", "k">>}

----------------------------------------------------------------------------
(* The handler: options loaded, checkArgs, sendMessage *)

Init ==
    /\ pc = "start"
    /\ env \in Envs
    /\ config = ZeroConfig
    /\ event \in HandlerEvents
    /\ posts = <<>>
    /\ checkErr = "unset"
    /\ sendErr = "unset"
    /\ tmplErr = FALSE
    /\ attachment = NoAttachment
    /\ call = NoCall

\* main: the plugin options are read into config before checkArgs runs
main ==
    /\ pc = "start"
    /\ config' = slackConfigOptions(env)
    /\ pc' = "loaded"
    /\ UNCHANGED <<env, event, posts, checkErr, sendErr, tmplErr, attachment, call>>

checkArgs ==
    /\ pc = "loaded"
    /\ LET cfg == deprecatedEnv(config, env)
           err == requiredOptions(cfg)
       IN  /\ config' = cfg
           /\ checkErr' = err
           /\ pc' = IF err = Nil THEN "validated" ELSE "failed"
    /\ UNCHANGED <<env, event, posts, sendErr, tmplErr, attachment, call>>

\* one webhook POST per failed attempt and one more: a retrying sender
PostWebhook_Retry(url, msg, ok) ==
    IF ok THEN <<[url |-> url, msg |-> msg, ok |-> TRUE]>>
    ELSE <<[url |-> url, msg |-> msg, ok |-> FALSE], [url |-> url, msg |-> msg, ok |-> FALSE]>>

\* slack.PostWebhook(url, msg): the POST attempts it makes
PostWebhook(url, msg, ok) == <<[url |-> url, msg |-> msg, ok |-> ok]>>

sendMessage ==
    /\ pc = "validated"
    /\ \E tmplOk \in BOOLEAN, description \in Descriptions, postOk \in BOOLEAN :
        LET att == messageAttachment(event, config, description)
            hookmsg == [Attachments |-> <<att.val>>,
                        Channel |-> config.slackChannel,
                        IconURL |-> config.slackIconURL,
                        Username |-> config.slackUsername]
        IN  /\ tmplErr' = ~tmplOk
            /\ IF att.panic
               THEN /\ pc' = "panicked"
                    /\ UNCHANGED <<posts, sendErr, attachment>>
               ELSE /\ attachment' = att.val
                    /\ posts' = posts \o PostWebhook(config.slackwebHookURL, hookmsg, postOk)
                    /\ sendErr' = IF postOk THEN Nil ELSE ErrSend
                    /\ pc' = "done"
    /\ UNCHANGED <<env, config, event, checkErr, call>>

Next == main \/ checkArgs \/ sendMessage

Spec == Init /\ [][Next]_vars

----------------------------------------------------------------------------
(* The formatter functions applied to an event *)

FmtInit ==
    /\ pc = "test"
    /\ env = NoEnv
    /\ config = ZeroConfig
    /\ event \in FmtEvents
    /\ posts = <<>>
    /\ checkErr = "unset"
    /\ sendErr = "unset"
    /\ tmplErr = FALSE
    /\ attachment = NoAttachment
    /\ call = NoCall

Called(fn, maxLength, ret) ==
    /\ pc = "test"
    /\ call' = [fn |-> fn, maxLength |-> maxLength, ret |-> ret]
    /\ UNCHANGED <<pc, env, config, event, posts, checkErr, sendErr, tmplErr, attachment>>

TestFormattedEventAction ==
    Called("formattedEventAction", 0, Ret(formattedEventAction(event)))

TestChomp == Called("chomp", 0, Ret(chomp(event.Check.Output)))

TestEventKey == Called("eventKey", 0, Ret(eventKey(event)))

TestEventSummary ==
    \E maxLength \in 0..MaxLength :
        Called("eventSummary", maxLength, eventSummary(event, maxLength))

TestFormattedMessage ==
    Called("formattedMessage", FallbackMaxLength, formattedMessage(event))

TestMessageColor == Called("messageColor", 0, Ret(messageColor(event)))

FmtNext ==
    \/ TestFormattedEventAction
    \/ TestChomp
    \/ TestEventKey
    \/ TestEventSummary
    \/ TestFormattedMessage
    \/ TestMessageColor

FmtSpec == FmtInit /\ [][FmtNext]_vars

----------------------------------------------------------------------------
(* Properties *)

Min(a, b) == IF a < b THEN a ELSE b

\* the first n characters of s, or all of s when it is shorter
FirstN(s, n) == SubSeq(s, 1, Min(n, Len(s)))

LineEndings == {LF, CR}

CheckArgsReturned == pc \in {"validated", "failed", "done", "panicked"}

SendMessageEnded == pc \in {"done", "panicked"}

\* C1: eventSummary(event, maxLength) returns "<entity>/<check>:<out>", <out>
\* being the first maxLength characters of the trimmed output followed by
\* "..." when the untrimmed output is longer than maxLength, and the trimmed
\* output otherwise.
C1_EventSummaryAsSpecified ==
    call.fn = "eventSummary" =>
        LET trimmed == chomp(event.Check.Output)
            out == IF Len(event.Check.Output) > call.maxLength
                   THEN FirstN(trimmed, call.maxLength) \o Ellipsis
                   ELSE trimmed
        IN  /\ ~call.ret.panic
            /\ call.ret.val = event.Entity.Name \o <<"/">> \o event.Check.Name
                                \o <<":">> \o out

\* C2: every sendMessage invocation makes exactly one webhook POST attempt,
\* and its result is an error if and only if that attempt failed.
C2_ExactlyOnePost ==
    SendMessageEnded =>
        /\ Len(posts) = 1
        /\ posts[1].url = config.slackwebHookURL
        /\ sendErr = (IF posts[1].ok THEN Nil ELSE ErrSend)

\* C3 as claimed: checkArgs succeeds when both URLs are set, names webhook-url
\* whenever the webhook URL is empty and names ui-url whenever the UI URL is
\* empty.
C3_EveryMissingFieldIdentified ==
    CheckArgsReturned =>
        /\ (config.slackwebHookURL # <<>> /\ config.sensuUIURL # <<>>) => checkErr = Nil
        /\ config.slackwebHookURL = <<>> => checkErr = ErrWebhookRequired
        /\ config.sensuUIURL = <<>> => checkErr = ErrUIRequired

\* C3 as amended: checkArgs succeeds when both URLs are set, names webhook-url
\* whenever the webhook URL is empty (also when the UI URL is empty too), and
\* names ui-url when the UI URL is empty and the webhook URL is set.
C3_FirstMissingFieldIdentified ==
    CheckArgsReturned =>
        /\ (config.slackwebHookURL # <<>> /\ config.sensuUIURL # <<>>) => checkErr = Nil
        /\ config.slackwebHookURL = <<>> => checkErr = ErrWebhookRequired
        /\ (config.slackwebHookURL # <<>> /\ config.sensuUIURL = <<>>)
              => checkErr = ErrUIRequired

\* checkArgs has run with neither URL set and reported the webhook URL
C3_Witness ==
    /\ pc = "failed"
    /\ config.slackwebHookURL = <<>>
    /\ config.sensuUIURL = <<>>
    /\ checkErr = ErrWebhookRequired

\* C4: when the description template fails to evaluate, sendMessage still
\* builds the attachment (fallback, color and one action from the event),
\* still makes the webhook POST, and returns what the POST decides.
C4_TemplateFailureNotFatal ==
    (SendMessageEnded /\ tmplErr) =>
        /\ attachment.set
        /\ attachment.Fallback = formattedMessage(event).val
        /\ attachment.Color = messageColor(event)
        /\ Len(attachment.Actions) = 1
        /\ attachment.Actions[1].URL = eventURL(event, config)
        /\ Len(posts) = 1
        /\ posts[1].msg.Attachments = <<attachment>>
        /\ sendErr = (IF posts[1].ok THEN Nil ELSE ErrSend)

\* C5: after checkArgs the webhook URL is the one the argument or
\* SLACK_WEBHOOK_URL supplied whenever one of them supplied a non-empty value;
\* SENSU_SLACK_WEBHOOK_URL is used only when neither did.
C5_DeprecatedWebhookOnlyFallback ==
    (CheckArgsReturned /\ (env.webhookArg # <<>> \/ env.webhookEnv # <<>>)) =>
        config.slackwebHookURL \in ({env.webhookArg, env.webhookEnv} \ {<<>>})

\* C6: chomp(s) is s without its longest suffix of \n and \r characters; no
\* character before that suffix is removed or changed.
C6_ChompStripsOnlyTrailing ==
    call.fn = "chomp" =>
        LET s == event.Check.Output
            r == call.ret.val
        IN  /\ Len(r) <= Len(s)
            /\ r = SubSeq(s, 1, Len(r))
            /\ \A i \in (Len(r) + 1)..Len(s) : s[i] \in LineEndings
            /\ (r = <<>> \/ r[Len(r)] \notin LineEndings)

\* C7: formattedMessage(event) is "RESOLVED - " followed by
\* eventSummary(event, 100) when the check status is 0 and "ALERT - " followed
\* by eventSummary(event, 100) for every other status.
C7_FormattedMessage ==
    call.fn = "formattedMessage" =>
        LET summary == eventSummary(event, 100)
            label == IF event.Check.Status = 0
                     THEN <<"R", "E", "S", "O", "L", "V", "E", "D", " ", "-", " ">>
                     ELSE <<"A", "L", "E", "R", "T", " ", "-", " ">>
        IN  /\ call.ret.panic = summary.panic
            /\ ~summary.panic => call.ret.val = label \o summary.val

\* formattedMessage returned for a critical event whose output was cut at 100
C7_Witness ==
    /\ call.fn = "formattedMessage"
    /\ ~call.ret.panic
    /\ event.Check.Status = 2
    /\ Len(event.Check.Output) > 100
    /\ Len(call.ret.val) = 8 + Len(eventKey(event)) + 1 + 100 + 3

\* C8: messageColor returns #36a64f for status 0, #ffcc00 for status 1,
\* #ff0000 for status 2 and #6600cc for every other status.
C8_MessageColorTotal ==
    call.fn = "messageColor" =>
        /\ event.Check.Status = 0 => call.ret.val = "#36a64f"
        /\ event.Check.Status = 1 => call.ret.val = "#ffcc00"
        /\ event.Check.Status = 2 => call.ret.val = "#ff0000"
        /\ event.Check.Status \notin {0, 1, 2} => call.ret.val = "#6600cc"
        /\ call.ret.val \in {"#36a64f", "#ffcc00", "#ff0000", "#6600cc"}

\* messageColor returned the catch-all color for an unknown status
C8_Witness ==
    /\ call.fn = "messageColor"
    /\ event.Check.Status > 2
    /\ call.ret.val = "#6600cc"

\* C9: the output part of what eventSummary(event, maxLength) returns, the
\* text after "<entity>/<check>:", is never longer than maxLength + 3.
C9_SummaryLengthBounded ==
    (call.fn = "eventSummary" /\ ~call.ret.panic) =>
        LET key == event.Entity.Name \o <<"/">> \o event.Check.Name \o <<":">>
        IN  /\ Len(call.ret.val) >= Len(key)
            /\ SubSeq(call.ret.val, 1, Len(key)) = key
            /\ Len(call.ret.val) - Len(key) <= call.maxLength + 3

\* eventSummary cut an output longer than maxLength and appended "..."
C9_Witness ==
    /\ call.fn = "eventSummary"
    /\ ~call.ret.panic
    /\ Len(chomp(event.Check.Output)) > call.maxLength + 3
    /\ Len(call.ret.val) = Len(eventKey(event)) + 1 + call.maxLength + 3

\* C10: eventSummary and formattedMessage return a result for every check
\* output and every maxLength >= 0: the slice of the trimmed output never
\* goes out of range.
C10_SummaryNeverPanics ==
    call.fn \in {"eventSummary", "formattedMessage"} => ~call.ret.panic

====
